---- MODULE Spec2Model ----
(***************************************************************************)
(* A model of main.py, the manga bot: one linear pipeline per invocation   *)
(*   get_fresh_trending_manga -> get_first_chapter -> download_images      *)
(*     -> send_email -> save_history                                       *)
(* over a history file that persists between invocations.                  *)
(*                                                                         *)
(* Text is modelled as sequences of one-character strings, the history     *)
(* file as a sequence of JSON tokens, so that formatting (page_NN.ext),    *)
(* splitting (the extension) and the json.dump / json.load round trip are  *)
(* computed rather than assumed.                                           *)
(***************************************************************************)
EXTENDS Integers, Sequences, FiniteSets, TLC

VARIABLES
    config,            \* the environment: which of EMAIL_SENDER / EMAIL_APP_PASSWORD are set
    file,              \* sent_history.json on disk
    catalog,           \* the ranked listing the catalog serves (when it answers 200)
    athome,            \* what the at-home server answers for the chapter
    pc,                \* position of the process in the script
    fatal,             \* whether "[FATAL] Missing ..." was printed
    stages,            \* the pipeline functions called by main() so far, in call order
    crash,             \* the call site an uncaught exception came from ("none" if none)
    catResp,           \* the catalog's answer in this run
    manga,             \* main's `manga` (the id of the selected item, or None)
    chapter,           \* main's `chapter` (the id of the selected chapter, or None)
    dl_i,              \* download_images: the loop index i (0-based)
    attempt,           \* download_images: requests issued so far for page dl_i
    count,             \* download_images: count
    downloaded_paths,  \* download_images: downloaded_paths
    succeeded,         \* pages (0-based indices) that were written, in order
    skipped,           \* pages given up after the last attempt
    lastReq,           \* the last page request issued: [page, n]
    images,            \* main's `images`
    loaded,            \* send_email: loaded_images before the trim loop
    attached,          \* send_email: loaded_images after the trim loop
    smtp,              \* what happened on the SMTP side in this run
    sent,              \* send_email's return value
    hprev,             \* the file as it was before the last save_history call
    harg,              \* the argument of the last save_history call
    fileAtStart,       \* the file as it was when the current run started
    prev               \* the previous run: its catalog answer, its item, its send result

vars == <<config, file, catalog, athome, pc, fatal, stages, crash, catResp, manga,
          chapter, dl_i, attempt, count, downloaded_paths, succeeded, skipped,
          lastReq, images, loaded, attached, smtp, sent, hprev, harg,
          fileAtStart, prev>>

None == "None"

-----------------------------------------------------------------------------
(* Bounds of the model *)

MaxHistory == 2        \* ids in the history file when a sequence of runs starts
MaxRunListing == 2     \* items in the catalog listing of a sequence of runs
MaxListing == 3        \* items in a listing when the selection is checked alone
MaxFiles == 1          \* pages of a chapter in a pipeline run
MaxLongFiles == 12     \* pages of a chapter when download_images is checked alone
MaxImages == 3         \* image paths handed to send_email when it is checked alone
MaxChapters == 1       \* chapters in a chapter listing

(* Program constants *)

IMAGES_TO_DOWNLOAD == 10
RETRIES == 2
MB == 1024 * 1024
MAX_EMAIL_SIZE_BYTES == 18 * 1024 * 1024

-----------------------------------------------------------------------------
(* Generic helpers *)

Range(s) == {s[k] : k \in 1..Len(s)}

SetMax(S) == CHOOSE x \in S : \A y \in S : y <= x

NoDuplicates(s) == \A j, k \in 1..Len(s) : j # k => s[j] # s[k]

SeqsUpTo(S, n) == UNION {[1..k -> S] : k \in 0..n}

RECURSIVE SumSizes(_)
SumSizes(imgs) ==
    IF imgs = <<>> THEN 0 ELSE imgs[1].size + SumSizes(Tail(imgs))

\* The manga ids of the model, in a fixed order.
IdOrder == <<"m1", "m2", "m3">>
Ids == Range(IdOrder)

-----------------------------------------------------------------------------
(* json.dump / json.load of a list of strings, over tokens *)

RECURSIVE JsonItems(_)
JsonItems(h) ==
    IF h = <<>> THEN <<>>
    ELSE IF Len(h) = 1 THEN <<h[1]>>
    ELSE <<h[1], ",">> \o JsonItems(Tail(h))

JsonDump(h) == <<"[">> \o JsonItems(h) \o <<"]">>

\* A token sequence json.load accepts: "[" id ("," id)* "]" or "[" "]".
JsonWellFormed(t) ==
    /\ Len(t) >= 2
    /\ t[1] = "["
    /\ t[Len(t)] = "]"
    /\ \/ Len(t) = 2
       \/ /\ Len(t) % 2 = 1
          /\ \A k \in 2..(Len(t) - 1) :
                IF k % 2 = 0 THEN t[k] \notin {"[", "]", ","} ELSE t[k] = ","

JsonParse(t) == [k \in 1..((Len(t) - 1) \div 2) |-> t[2 * k]]

\* The ids that occur in the text of the file, parseable or not.
TextIds(f) == {f.text[k] : k \in 1..Len(f.text)} \ {"[", "]", ","}

TextFile(t) == [kind |-> "text", text |-> t]
MissingFile == [kind |-> "missing", text |-> <<>>]

-----------------------------------------------------------------------------
(* load_history, save_history *)

Returned(v) == [raised |-> FALSE, value |-> v]
Raised == [raised |-> TRUE, value |-> <<>>]

LoadHistory(f) ==
    IF f.kind = "missing" THEN Returned(<<>>)                \* os.path.exists is False
    ELSE IF f.kind = "unreadable" THEN Raised                \* open() raises OSError
    ELSE IF f.kind = "undecodable" THEN Raised               \* UnicodeDecodeError
    ELSE IF JsonWellFormed(f.text) THEN Returned(JsonParse(f.text))
    ELSE Returned(<<>>)                                      \* json.JSONDecodeError caught

SaveHistoryAlwaysAppend(f, sent_id) ==
    LET h == LoadHistory(f)
    IN  IF h.raised THEN [raised |-> TRUE, file |-> f]
        ELSE [raised |-> FALSE, file |-> TextFile(JsonDump(Append(h.value, sent_id)))]

SaveHistoryOnlyNew(f, sent_id) ==
    LET h == LoadHistory(f)
    IN  IF h.raised THEN [raised |-> TRUE, file |-> f]
        ELSE IF sent_id \in Range(h.value) THEN [raised |-> FALSE, file |-> f]
        ELSE [raised |-> FALSE, file |-> TextFile(JsonDump(<<sent_id>>))]

SaveHistory(f, sent_id) ==
    LET h == LoadHistory(f)
    IN  IF h.raised THEN [raised |-> TRUE, file |-> f]
        ELSE IF sent_id \in Range(h.value) THEN [raised |-> FALSE, file |-> f]
        ELSE [raised |-> FALSE, file |-> TextFile(JsonDump(Append(h.value, sent_id)))]

-----------------------------------------------------------------------------
(* get_fresh_trending_manga: the scan of the listing *)

FirstFreshIgnoringHistory(listing, history) ==
    IF listing = <<>> THEN None ELSE listing[1]

\* for manga in data["data"]: if manga_id not in history: return {...}
RECURSIVE FirstFresh(_, _)
FirstFresh(listing, history) ==
    IF listing = <<>> THEN None
    ELSE IF listing[1] \notin Range(history) THEN listing[1]
    ELSE FirstFresh(Tail(listing), history)

\* resp.kind: "ok" (status 200, a listing), "http_error" (status # 200),
\* "exception" (requests.get or resp.json raised)
GetFreshTrendingManga(history, resp) ==
    IF resp.kind = "ok" THEN FirstFresh(resp.data, history) ELSE None

-----------------------------------------------------------------------------
(* get_first_chapter: the scan of the chapter listing *)

DigitChars == <<"0", "1", "2", "3", "4", "5", "6", "7", "8", "9">>

\* str.isdigit
IsDigit(s) == s # <<>> /\ \A k \in 1..Len(s) : s[k] \in Range(DigitChars)

\* s.replace('.', '', 1)
RemoveFirstDot(s) ==
    LET dots == {k \in 1..Len(s) : s[k] = "."}
    IN  IF dots = {} THEN s
        ELSE LET d == CHOOSE k \in dots : \A j \in dots : k <= j
             IN  SubSeq(s, 1, d - 1) \o SubSeq(s, d + 1, Len(s))

ChapterEligible(ch_num) ==
    \/ ch_num = <<"1">>
    \/ ch_num = <<"0">>
    \/ (ch_num # <<>> /\ IsDigit(RemoveFirstDot(ch_num)))

RECURSIVE FirstChapter(_)
FirstChapter(chapters) ==
    IF chapters = <<>> THEN None
    ELSE IF ChapterEligible(chapters[1].num) THEN chapters[1].id
    ELSE FirstChapter(Tail(chapters))

\* resp.kind: "ok" (a body with a chapter listing), "exception"
GetFirstChapter(resp) ==
    IF resp.kind = "ok" THEN FirstChapter(resp.data) ELSE None

-----------------------------------------------------------------------------
(* download_images: the local path of page i *)

RECURSIVE Decimal(_)
Decimal(n) ==
    IF n < 10 THEN <<DigitChars[n + 1]>>
    ELSE Decimal(n \div 10) \o <<DigitChars[(n % 10) + 1]>>

\* f"{n:02d}"
Format02d(n) == IF n < 10 THEN <<"0">> \o Decimal(n) ELSE Decimal(n)

\* s.split(sep)[-1]
LastPart(s, sep) ==
    LET at == {k \in 1..Len(s) : s[k] = sep}
    IN  IF at = {} THEN s ELSE SubSeq(s, SetMax(at) + 1, Len(s))

Folder == <<"t", "/">>

\* os.path.join(folder, f"page_{i+1:02d}.{ext}")
LocalPath(i, filename) ==
    Folder \o <<"p", "a", "g", "e", "_">> \o Format02d(i + 1) \o <<".">>
           \o LastPart(filename, ".")

-----------------------------------------------------------------------------
(* send_email: loading the images, the size-trim loop *)

LoadFail == -1

\* for path in image_paths: try: open, read, append  except: warn
RECURSIVE LoadImages(_, _)
LoadImages(paths, content) ==
    IF paths = <<>> THEN <<>>
    ELSE LET rest == LoadImages(Tail(paths), Tail(content))
         IN  IF content[1] = LoadFail THEN rest
             ELSE <<[name |-> LastPart(paths[1], "/"), size |-> content[1],
                     path |-> paths[1]]>> \o rest

RECURSIVE TrimLoopKeepOne(_, _)
TrimLoopKeepOne(imgs, total_size) ==
    IF total_size > MAX_EMAIL_SIZE_BYTES /\ Len(imgs) > 1
    THEN TrimLoopKeepOne(SubSeq(imgs, 1, Len(imgs) - 1), total_size - imgs[Len(imgs)].size)
    ELSE imgs

RECURSIVE TrimLoopFromFront(_, _)
TrimLoopFromFront(imgs, total_size) ==
    IF total_size > MAX_EMAIL_SIZE_BYTES /\ Len(imgs) > 0
    THEN TrimLoopFromFront(Tail(imgs), total_size - imgs[1].size)
    ELSE imgs

\* while total_size > MAX_EMAIL_SIZE_BYTES and len(loaded_images) > 0: pop()
RECURSIVE TrimLoop(_, _)
TrimLoop(imgs, total_size) ==
    IF total_size > MAX_EMAIL_SIZE_BYTES /\ Len(imgs) > 0
    THEN TrimLoop(SubSeq(imgs, 1, Len(imgs) - 1), total_size - imgs[Len(imgs)].size)
    ELSE imgs

\* smtp.login(EMAIL_SENDER, EMAIL_APP_PASSWORD) cannot succeed without both.
ConfigOk == config.sender /\ config.password

-----------------------------------------------------------------------------
(* The environment's inputs *)

DupFreeSeqs(S, n) == {h \in SeqsUpTo(S, n) : NoDuplicates(h)}

Prefixes(t) == {SubSeq(t, 1, k) : k \in 0..Len(t)}

\* Histories the program can have written: the first n ids, without duplicates.
WrittenHistories(n) == {SubSeq(IdOrder, 1, k) : k \in 0..(IF n < Len(IdOrder) THEN n ELSE Len(IdOrder))}

\* The history file: missing, as json.dump wrote it, cut short (a partial
\* write), not UTF-8, or not readable by the process.
HistoryFiles(hs) ==
    {MissingFile}
      \cup {TextFile(p) : p \in UNION {Prefixes(JsonDump(h)) : h \in hs}}
      \cup {[kind |-> "undecodable", text |-> <<>>]}
      \cup {[kind |-> "unreadable", text |-> JsonDump(<<IdOrder[1]>>)]}

Corrupted(f) ==
    \/ f.kind \in {"undecodable", "unreadable"}
    \/ f.kind = "text" /\ ~JsonWellFormed(f.text)

ChapterNums == {<<"1">>, <<"3", ".", "5">>, <<>>, <<"s", "p">>}
ChapterIds == <<"c1", "c2", "c3">>

ChapterListings ==
    {[k \in 1..Len(nums) |-> [id |-> ChapterIds[k], num |-> nums[k]]] :
        nums \in SeqsUpTo(ChapterNums, MaxChapters)}

ChapterResponses ==
    {[kind |-> "ok", data |-> l] : l \in ChapterListings}
      \cup {[kind |-> "exception", data |-> <<>>]}

\* Remote page file names: "x1.jpg", "x2.png", "a.b.gif", "noext" in short.
PageNames == <<<<"x", ".", "j">>, <<"x", ".", "p">>, <<"a", ".", "b", ".", "g">>, <<"n">>>>

\* A chapter of n pages; with same = TRUE every page has the same remote name.
PageFiles(n, same) ==
    [k \in 1..n |-> IF same THEN PageNames[1] ELSE PageNames[((k - 1) % Len(PageNames)) + 1]]

AtHomeResponses(n) ==
    {[kind |-> "ok", files |-> PageFiles(k, same)] : k \in 0..n, same \in BOOLEAN}
      \cup {[kind |-> "http_error", files |-> <<>>], [kind |-> "exception", files |-> <<>>]}

NoResponse == [kind |-> "none", files |-> <<>>]

Sizes == {0, 10 * MB, MAX_EMAIL_SIZE_BYTES, MAX_EMAIL_SIZE_BYTES + 1}

PipelineOrder ==
    <<"get_fresh_trending_manga", "get_first_chapter", "download_images",
      "send_email", "save_history">>

-----------------------------------------------------------------------------
(* main's branches *)

\* if manga: ... else: print("[FAIL] No new manga found.")
AfterSelect(m) == IF m # None THEN "chapter" ELSE "finished"

\* if chapter: ... else: print("[FAIL] No chapter found.")
AfterChapter(c) == IF c # None THEN "download" ELSE "finished"

AfterDownloadAlwaysSend(imgs) == "send"

\* if images: ... else: print("[FAIL] No images downloaded.")
AfterDownload(imgs) == IF imgs # <<>> THEN "send" ELSE "finished"

AfterSendAlwaysRecord(result) == "record"

\* if send_email(manga, images): save_history(manga["id"]) else: print("[FAIL] ...")
AfterSend(result) == IF result = "True" THEN "record" ELSE "finished"

-----------------------------------------------------------------------------
(* The state of one run *)

dlVars == <<athome, dl_i, attempt, count, downloaded_paths, succeeded, skipped, lastReq>>
sendVars == <<loaded, attached, smtp, sent>>
envVars == <<config, catalog>>
ghostVars == <<hprev, harg, fileAtStart, prev>>

NoRequest == [page |-> -1, n |-> 0]

RunStart ==
    /\ fatal = FALSE
    /\ stages = <<>>
    /\ crash = "none"
    /\ catResp = "none"
    /\ manga = None
    /\ chapter = None
    /\ athome = NoResponse
    /\ dl_i = 0
    /\ attempt = 0
    /\ count = 0
    /\ downloaded_paths = <<>>
    /\ succeeded = <<>>
    /\ skipped = {}
    /\ lastReq = NoRequest
    /\ images = <<>>
    /\ loaded = <<>>
    /\ attached = <<>>
    /\ smtp = "none"
    /\ sent = "none"
    /\ harg = None

Init ==
    /\ config \in [sender : BOOLEAN, password : BOOLEAN]
    /\ file \in HistoryFiles(WrittenHistories(MaxHistory))
    /\ catalog \in DupFreeSeqs(Ids, MaxRunListing)
    /\ pc = "start"
    /\ RunStart
    /\ hprev = file
    /\ fileAtStart = file
    /\ prev = None

-----------------------------------------------------------------------------
(* The script, top to bottom *)

\* Lines 14-19: the module-level check prints and goes on; line 268 calls main().
ConfigCheck ==
    /\ pc = "start"
    /\ fatal' = ~ConfigOk
    /\ pc' = "main"
    /\ UNCHANGED <<file, stages, crash, catResp, manga, chapter, images>>
    /\ UNCHANGED <<envVars, dlVars, sendVars, ghostVars>>

\* main line 245: get_fresh_trending_manga(). load_history() is called before
\* the try block, so what it raises leaves main().
Select ==
    /\ pc = "main"
    /\ stages' = Append(stages, "get_fresh_trending_manga")
    /\ LET h == LoadHistory(file)
       IN  IF h.raised
           THEN /\ crash' = "load_history"
                /\ pc' = "crashed"
                /\ UNCHANGED <<catResp, manga>>
           ELSE \E kind \in {"ok", "http_error", "exception"} :
                   /\ catResp' = kind
                   /\ manga' = GetFreshTrendingManga(h.value, [kind |-> kind, data |-> catalog])
                   /\ pc' = AfterSelect(manga')
                   /\ UNCHANGED crash
    /\ UNCHANGED <<file, fatal, chapter, images>>
    /\ UNCHANGED <<envVars, dlVars, sendVars, ghostVars>>

\* main line 248: get_first_chapter(manga["id"])
Chapter ==
    /\ pc = "chapter"
    /\ stages' = Append(stages, "get_first_chapter")
    /\ \E resp \in ChapterResponses :
          /\ chapter' = GetFirstChapter(resp)
          /\ pc' = AfterChapter(chapter')
    /\ UNCHANGED <<file, fatal, crash, catResp, manga, images>>
    /\ UNCHANGED <<envVars, dlVars, sendVars, ghostVars>>

\* main line 251, download_images lines 128-147: the at-home request.
DownloadStart ==
    /\ pc = "download"
    /\ stages' = Append(stages, "download_images")
    /\ \E resp \in AtHomeResponses(MaxFiles) :
          /\ athome' = resp
          /\ IF resp.kind = "ok"
             THEN pc' = "dl_loop"
             ELSE pc' = AfterDownload(<<>>)      \* return []
    /\ UNCHANGED <<file, fatal, crash, catResp, manga, chapter, images>>
    /\ UNCHANGED <<dl_i, attempt, count, downloaded_paths, succeeded, skipped, lastReq>>
    /\ UNCHANGED <<envVars, sendVars, ghostVars>>

LoopExitWithoutCap == dl_i >= Len(athome.files)

\* for i, filename in enumerate(files): if count >= IMAGES_TO_DOWNLOAD: break
LoopExit == dl_i >= Len(athome.files) \/ count >= IMAGES_TO_DOWNLOAD

\* One pass of `for _ in range(2)`: a request for page dl_i and what follows.
\* outcome: "ok" (200 and the file written), "write_error" (200, open or write
\* raised), "http_error" (not 200), "exception" (requests.get raised).
PageRequest ==
    /\ pc = "dl_loop"
    /\ ~LoopExit
    /\ attempt < RETRIES
    /\ lastReq' = [page |-> dl_i, n |-> attempt + 1]
    /\ \E outcome \in {"ok", "write_error", "http_error", "exception"} :
          IF outcome = "ok"
          THEN /\ downloaded_paths' =
                     Append(downloaded_paths, LocalPath(dl_i, athome.files[dl_i + 1]))
               /\ succeeded' = Append(succeeded, dl_i)
               /\ count' = count + 1
               /\ dl_i' = dl_i + 1
               /\ attempt' = 0
               /\ UNCHANGED skipped
          ELSE IF attempt + 1 < RETRIES
          THEN /\ attempt' = attempt + 1
               /\ UNCHANGED <<downloaded_paths, succeeded, count, dl_i, skipped>>
          ELSE /\ skipped' = skipped \cup {dl_i}
               /\ dl_i' = dl_i + 1
               /\ attempt' = 0
               /\ UNCHANGED <<downloaded_paths, succeeded, count>>
    /\ UNCHANGED <<pc, file, fatal, stages, crash, catResp, manga, chapter, images, athome>>
    /\ UNCHANGED <<envVars, sendVars, ghostVars>>

\* download_images lines 169-170 and main line 253.
DownloadReturn ==
    /\ pc = "dl_loop"
    /\ LoopExit
    /\ images' = downloaded_paths
    /\ pc' = AfterDownload(downloaded_paths)
    /\ UNCHANGED <<file, fatal, stages, crash, catResp, manga, chapter>>
    /\ UNCHANGED <<envVars, dlVars, sendVars, ghostVars>>

\* main line 254: send_email(manga, images). content[k] is the size of the file
\* at images[k], or LoadFail when it cannot be opened; outcome is what the SMTP
\* block (lines 232-241) does when a message was built.
SendEmail ==
    /\ pc = "send"
    /\ stages' = Append(stages, "send_email")
    /\ \E content \in [1..Len(images) -> Sizes \cup {LoadFail}],
          outcome \in {"sent", "failed"} :
          /\ outcome = "sent" => ConfigOk
          /\ loaded' = LoadImages(images, content)
          /\ attached' = TrimLoop(loaded', SumSizes(loaded'))
          /\ smtp' = IF attached' = <<>> THEN "none" ELSE outcome
          /\ sent' = IF smtp' = "sent" THEN "True" ELSE "False"
          /\ pc' = AfterSend(sent')
    /\ UNCHANGED <<file, fatal, crash, catResp, manga, chapter, images>>
    /\ UNCHANGED <<envVars, dlVars, ghostVars>>

\* main line 255: save_history(manga["id"])
Record ==
    /\ pc = "record"
    /\ stages' = Append(stages, "save_history")
    /\ hprev' = file
    /\ harg' = manga
    /\ LET r == SaveHistory(file, manga)
       IN  IF r.raised
           THEN /\ crash' = "save_history"
                /\ pc' = "crashed"
                /\ UNCHANGED file
           ELSE /\ file' = r.file
                /\ pc' = "finished"
                /\ UNCHANGED crash
    /\ UNCHANGED <<fatal, catResp, manga, chapter, images, fileAtStart, prev>>
    /\ UNCHANGED <<envVars, dlVars, sendVars>>

\* The scheduler starts the script again: a new process over the same file.
NextRun ==
    /\ pc \in {"finished", "crashed"}
    /\ pc' = "start"
    /\ fatal' = FALSE
    /\ stages' = <<>>
    /\ crash' = "none"
    /\ catResp' = "none"
    /\ manga' = None
    /\ chapter' = None
    /\ athome' = NoResponse
    /\ dl_i' = 0
    /\ attempt' = 0
    /\ count' = 0
    /\ downloaded_paths' = <<>>
    /\ succeeded' = <<>>
    /\ skipped' = {}
    /\ lastReq' = NoRequest
    /\ images' = <<>>
    /\ loaded' = <<>>
    /\ attached' = <<>>
    /\ smtp' = "none"
    /\ sent' = "none"
    /\ harg' = None
    /\ hprev' = file
    /\ fileAtStart' = file
    /\ prev' = IF sent = "False" THEN manga ELSE None
    /\ UNCHANGED <<file, envVars>>

Next ==
    \/ ConfigCheck
    \/ Select
    \/ Chapter
    \/ DownloadStart
    \/ PageRequest
    \/ DownloadReturn
    \/ SendEmail
    \/ Record
    \/ NextRun

Spec == Init /\ [][Next]_vars

-----------------------------------------------------------------------------
(* get_fresh_trending_manga alone, over every listing and history file *)

InitSelect ==
    /\ config = [sender |-> TRUE, password |-> TRUE]
    /\ file \in HistoryFiles(DupFreeSeqs(Ids, MaxHistory))
    /\ catalog \in SeqsUpTo(Ids, MaxListing)
    /\ pc = "main"
    /\ RunStart
    /\ hprev = file
    /\ fileAtStart = file
    /\ prev = None

NextSelect == Select

SpecSelect == InitSelect /\ [][NextSelect]_vars

-----------------------------------------------------------------------------
(* save_history alone: any sequence of calls *)

InitHistory ==
    /\ config = [sender |-> TRUE, password |-> TRUE]
    /\ file \in HistoryFiles(DupFreeSeqs(Ids, MaxHistory))
    /\ catalog = <<>>
    /\ pc = "history"
    /\ RunStart
    /\ hprev = file
    /\ fileAtStart = file
    /\ prev = None

CallSaveHistory ==
    /\ pc = "history"
    /\ \E sent_id \in Ids :
          LET r == SaveHistory(file, sent_id)
          IN  /\ hprev' = file
              /\ harg' = sent_id
              /\ file' = r.file
              /\ crash' = IF r.raised THEN "save_history" ELSE "none"
              /\ pc' = IF r.raised THEN "crashed" ELSE "history"
    /\ UNCHANGED <<fatal, stages, catResp, manga, chapter, images, fileAtStart, prev>>
    /\ UNCHANGED <<envVars, dlVars, sendVars>>

NextHistory == CallSaveHistory

SpecHistory == InitHistory /\ [][NextHistory]_vars

-----------------------------------------------------------------------------
(* download_images alone, from the at-home answer on, over long chapters *)

InitDownload ==
    /\ config = [sender |-> TRUE, password |-> TRUE]
    /\ file = MissingFile
    /\ catalog = <<IdOrder[1]>>
    /\ pc = "dl_loop"
    /\ fatal = FALSE
    /\ stages = SubSeq(PipelineOrder, 1, 3)
    /\ crash = "none"
    /\ catResp = "ok"
    /\ manga = IdOrder[1]
    /\ chapter = ChapterIds[1]
    /\ athome \in {r \in AtHomeResponses(MaxLongFiles) : r.kind = "ok"}
    /\ dl_i = 0
    /\ attempt = 0
    /\ count = 0
    /\ downloaded_paths = <<>>
    /\ succeeded = <<>>
    /\ skipped = {}
    /\ lastReq = NoRequest
    /\ images = <<>>
    /\ loaded = <<>>
    /\ attached = <<>>
    /\ smtp = "none"
    /\ sent = "none"
    /\ hprev = file
    /\ harg = None
    /\ fileAtStart = file
    /\ prev = None

NextDownload == PageRequest \/ DownloadReturn

SpecDownload == InitDownload /\ [][NextDownload]_vars

-----------------------------------------------------------------------------
(* send_email alone, over every list of image paths and every file content *)

InitSend ==
    /\ config \in [sender : BOOLEAN, password : BOOLEAN]
    /\ file = MissingFile
    /\ catalog = <<IdOrder[1]>>
    /\ pc = "send"
    /\ fatal = ~ConfigOk
    /\ stages = SubSeq(PipelineOrder, 1, 3)
    /\ crash = "none"
    /\ catResp = "ok"
    /\ manga = IdOrder[1]
    /\ chapter = ChapterIds[1]
    /\ \E n \in 1..MaxImages :
          /\ athome = [kind |-> "ok", files |-> PageFiles(n, FALSE)]
          /\ dl_i = n
          /\ count = n
          /\ downloaded_paths = [k \in 1..n |-> LocalPath(k - 1, athome.files[k])]
          /\ succeeded = [k \in 1..n |-> k - 1]
          /\ lastReq = [page |-> n - 1, n |-> 1]
    /\ attempt = 0
    /\ skipped = {}
    /\ images = downloaded_paths
    /\ loaded = <<>>
    /\ attached = <<>>
    /\ smtp = "none"
    /\ sent = "none"
    /\ hprev = file
    /\ harg = None
    /\ fileAtStart = file
    /\ prev = None

NextSend == SendEmail

SpecSend == InitSend /\ [][NextSend]_vars

-----------------------------------------------------------------------------
(* The claims *)

Called(stage) == stage \in Range(stages)

\* C1: save_history(manga id) runs only after send_email returned True for that
\* item; a run whose send_email returned False leaves the history file as it
\* was, and the next run that gets the same listing selects the same item.
C1_SaveOnlyAfterSend ==
    /\ Called("save_history") => (sent = "True" /\ harg = manga /\ manga # None)
    /\ file # fileAtStart => Called("save_history")
    /\ sent = "False" => file = fileAtStart
    /\ (prev # None /\ catResp = "ok") => manga = prev

\* A run retries the item whose send failed in the run before, and delivers it.
C1_Witness ==
    /\ prev # None
    /\ manga = prev
    /\ pc = "finished"
    /\ sent = "True"
    /\ file # fileAtStart

\* The prefixes of the loaded images whose total size fits the budget.
FittingPrefixes(imgs) ==
    {n \in 0..Len(imgs) : SumSizes(SubSeq(imgs, 1, n)) <= MAX_EMAIL_SIZE_BYTES}

\* C2: the size-trim loop leaves exactly the longest prefix of the loaded images
\* whose total size is within the budget; when all of them fit nothing is removed.
C2_TrimKeepsLongestFittingPrefix ==
    sent # "none" =>
        /\ attached = SubSeq(loaded, 1, SetMax(FittingPrefixes(loaded)))
        /\ SumSizes(loaded) <= MAX_EMAIL_SIZE_BYTES => attached = loaded

\* Three images of 10 MB each: exactly the first one is left.
C2_Witness ==
    /\ sent # "none"
    /\ Len(loaded) = 3
    /\ \A k \in 1..3 : loaded[k].size = 10 * MB
    /\ attached = <<loaded[1]>>

\* C3: when the trim loop leaves no image, send_email returns False and no SMTP
\* connection is made; when a send is attempted the attached images are not
\* empty and their total size is within MAX_EMAIL_SIZE_BYTES.
C3_NothingFitsNoSend ==
    /\ (sent # "none" /\ attached = <<>>) => (sent = "False" /\ smtp = "none")
    /\ (loaded # <<>> /\ loaded[1].size > MAX_EMAIL_SIZE_BYTES) =>
           (attached = <<>> /\ smtp = "none" /\ sent = "False")
    /\ smtp # "none" =>
           (attached # <<>> /\ SumSizes(attached) <= MAX_EMAIL_SIZE_BYTES)

\* The first image alone is over the budget and others follow it.
C3_Witness ==
    /\ sent = "False"
    /\ smtp = "none"
    /\ Len(loaded) >= 2
    /\ loaded[1].size > MAX_EMAIL_SIZE_BYTES
    /\ loaded[2].size <= MAX_EMAIL_SIZE_BYTES

\* The listing positions whose id is not in the history the run loaded.
FreshPositions ==
    {k \in 1..Len(catalog) : catalog[k] \notin Range(LoadHistory(file).value)}

\* C4: on a status-200 listing get_fresh_trending_manga returns the item at the
\* smallest position whose id is not in history, None exactly when every listed
\* id is in history, and never an item whose id is in history.
C4_FirstUnseenItem ==
    catResp = "ok" =>
        /\ manga = None <=> FreshPositions = {}
        /\ manga # None =>
              /\ manga = catalog[CHOOSE k \in FreshPositions : \A j \in FreshPositions : k <= j]
              /\ manga \notin Range(LoadHistory(file).value)

\* Items 1 and 2 of a listing of three are in history: item 3 is returned.
C4_Witness ==
    /\ catResp = "ok"
    /\ Len(catalog) = 3
    /\ FreshPositions = {3}
    /\ manga = catalog[3]

\* C5: save_history is idempotent and duplicate-free: after save_history(x) the
\* id x is in the store, the ids that were there are still there, a second
\* save_history(x) leaves the file as it is, and no id is stored twice.
C5_SaveIdempotentNoDuplicates ==
    /\ NoDuplicates(LoadHistory(file).value)
    /\ (harg # None /\ crash = "none") =>
          /\ harg \in Range(LoadHistory(file).value)
          /\ Range(LoadHistory(file).value) = Range(LoadHistory(hprev).value) \cup {harg}
          /\ SaveHistory(file, harg).file = file
          /\ harg \in Range(LoadHistory(hprev).value) => file = hprev

\* An id that was not in a store of two ids has been added to it.
C5_Witness ==
    /\ harg # None
    /\ crash = "none"
    /\ Len(LoadHistory(hprev).value) = 2
    /\ harg \notin Range(LoadHistory(hprev).value)
    /\ Len(LoadHistory(file).value) = 3

\* A history file whose text json.load rejects.
Malformed(f) == f.kind = "text" /\ ~JsonWellFormed(f.text)

\* C6 as claimed: every id in the file before a run is in the file after it,
\* also when the run found the file malformed.
C6_IdsNeverLeaveFile == TextIds(fileAtStart) \subseteq TextIds(file)

\* C6 as amended: every id in a file that is not malformed is still in the file
\* after the run; a run that found the file malformed leaves it as it was or
\* replaces it by the list of the one id it sent.
C6_IdsOfParsedFileStay ==
    /\ ~Malformed(fileAtStart) => TextIds(fileAtStart) \subseteq TextIds(file)
    /\ Malformed(fileAtStart) =>
          (file = fileAtStart \/ (sent = "True" /\ file = TextFile(JsonDump(<<manga>>))))

\* A run on a well-formed file of two ids has added a third.
C6_Witness ==
    /\ pc = "finished"
    /\ fileAtStart.kind = "text"
    /\ Len(LoadHistory(fileAtStart).value) = 2
    /\ Cardinality(TextIds(file)) = 3

\* C7 as claimed: a corrupted, unreadable or missing history file never aborts
\* the run, load_history returns the empty list for it.
C7_CorruptedFileNeverAborts ==
    (Corrupted(fileAtStart) \/ fileAtStart.kind = "missing") =>
        /\ pc # "crashed"
        /\ stages # <<>> => LoadHistory(fileAtStart) = Returned(<<>>)

\* C8 as claimed: with the sender or the secret missing no pipeline stage runs.
C8_NoStageWithoutConfig ==
    ~ConfigOk => (stages = <<>> /\ smtp = "none" /\ file = fileAtStart)

\* C9: main() calls the stages in the fixed order, each at most once, a stage
\* only when every earlier one returned something; when a stage returned
\* nothing the later ones are not called, history is not written and the run
\* ends normally.
C9_StagesShortCircuit ==
    /\ stages = SubSeq(PipelineOrder, 1, Len(stages))
    /\ Called("get_first_chapter") => manga # None
    /\ Called("download_images") => chapter # None
    /\ Called("send_email") => images # <<>>
    /\ Called("save_history") => sent = "True"
    /\ (Called("get_fresh_trending_manga") /\ crash = "none" /\ manga = None) =>
          (pc = "finished" /\ Len(stages) = 1 /\ file = fileAtStart)
    /\ (Called("get_first_chapter") /\ chapter = None) =>
          (pc = "finished" /\ Len(stages) = 2 /\ file = fileAtStart)
    /\ (Called("download_images") /\ pc \notin {"download", "dl_loop"} /\ images = <<>>) =>
          (pc = "finished" /\ Len(stages) = 3 /\ file = fileAtStart)

\* Every page of the chapter failed: the run ended after download_images.
C9_Witness ==
    /\ pc = "finished"
    /\ Len(stages) = 3
    /\ athome.kind = "ok"
    /\ skipped # {}
    /\ images = <<>>

\* C10: download_images asks at most twice for a page, page after page in
\* listing order, gives up a page after two failures and goes on, stops once
\* IMAGES_TO_DOWNLOAD pages are written, and returns the paths of the written
\* pages in listing order, no two of them the same.
C10_DownloadBoundedInOrder ==
    /\ attempt < 2
    /\ lastReq.n <= 2
    /\ attempt > 0 => lastReq = [page |-> dl_i, n |-> attempt]
    /\ (attempt = 0 /\ dl_i > 0) => lastReq.page = dl_i - 1
    /\ \A p \in skipped : p \notin Range(succeeded)
    /\ Range(succeeded) \cup skipped = 0..(dl_i - 1)
    /\ \A j, k \in 1..Len(succeeded) : j < k => succeeded[j] < succeeded[k]
    /\ Len(downloaded_paths) = Len(succeeded)
    /\ \A k \in 1..Len(succeeded) :
          downloaded_paths[k] = LocalPath(succeeded[k], athome.files[succeeded[k] + 1])
    /\ \A j, k \in 1..Len(downloaded_paths) :
          j # k => LastPart(downloaded_paths[j], "/") # LastPart(downloaded_paths[k], "/")
    /\ count = Len(downloaded_paths)
    /\ count <= 10
    /\ count = 10 => lastReq = [page |-> succeeded[10], n |-> lastReq.n]
    /\ pc \in {"send", "finished"} =>
          /\ images = downloaded_paths
          /\ dl_i = Len(athome.files) \/ count = 10
          /\ pc = "finished" <=> images = <<>>

\* Ten pages were written, one was given up, and a page was never asked for.
C10_Witness ==
    /\ pc = "send"
    /\ Len(images) = 10
    /\ skipped # {}
    /\ dl_i < Len(athome.files)

====
